---- MODULE Spec2Model ----
(***************************************************************************)
(* A model of the MCP chatbot (src/mcp_chatbot.py): the conversation       *)
(* state of MCP_ChatBot, its interactive chat loop, process_query with its *)
(* tool dispatch loop, and the search -> extract -> full text -> summarize *)
(* chain of handle_search_and_summarize.  The language model and the tool  *)
(* provider are the environment: every answer they can give is a           *)
(* nondeterministic choice.                                                *)
(***************************************************************************)
EXTENDS Integers, Sequences, FiniteSets, TLC

(* ------------------------------ bounds -------------------------------- *)

\* Messages the history may grow to, the entries listed into the resource
\* and prompt catalogs counted with them: a query or a list command is only
\* explored when what it can add still fits.
MaxHistory == 7
\* Tool-call requests the model makes in a session, in one assistant message
\* or over several.
MaxCalls == 2
\* Identifiers in a discovery (search_papers) result.
MaxIds == 4
\* Entries the prompt catalog may grow to (list prompts appends).
MaxPromptEntries == 2

(* ------------------------- program constants -------------------------- *)

\* paper_ids[:3] in handle_search_and_summarize.
ChainLimit == 3

(* ------------------------------ texts --------------------------------- *)

\* Every text of the model is a record [kind, ids]; ids is used by JSON
\* arrays of identifiers and by per-identifier texts.
Txt(k) == [kind |-> k, ids |-> <<>>]
TxtOf(k, pid) == [kind |-> k, ids |-> <<pid>>]
JsonArray(ids) == [kind |-> "json_array", ids |-> ids]
\* The text of a JSON string; ids are its characters.
JsonString(chars) == [kind |-> "json_string", ids |-> chars]
None == Txt("none")
EmptyText == Txt("empty")

\* The identifiers of a discovery result of n papers, in result order.
Payload(n) == [i \in 1..n |-> i]

\* What the user may type as a query, and what a prompt may generate.
QueryTexts == {Txt("text")}
PromptTexts == {Txt("prompt_text")}

\* function.arguments of a tool call as the model wrote it.
RawArguments == {"{\"k\": \"v\"}", "{not json"}

\* json.loads(tool_call.function.arguments): does it raise JSONDecodeError?
JsonParsesAlways(raw) == TRUE
JsonParses(raw) == raw # "{not json"

\* json.loads(tool_result_text) followed by the slice paper_ids[:3]: the
\* chain only runs on a value that parses and can be sliced, a list or a
\* str; on an object, a number, true, false or null the slice raises.
ParsesAsList(text) == text.kind \in {"json_array", "json_string"}

\* Python truthiness of a str-or-None value.
Falsy(t) == t.kind \in {"none", "empty"}
\* a or b
PyOr(a, b) == IF Falsy(a) THEN b ELSE a

(* ---------------------------- the provider ---------------------------- *)

\* research_server.py: the tools, the listed resource and the prompt.
ServerTools == {"search_papers", "extract_info", "summarize_paper",
                "get_full_text", "list_all_papers"}
ServerResources == {"papers://folders"}
ServerPrompts == {"generate_search_prompt"}

\* The catalogs list_tools may declare: the server's own, and the server's
\* with one tool of the chain not declared.
Catalogs == {ServerTools} \cup
            {ServerTools \ {t} : t \in {"extract_info", "summarize_paper", "get_full_text"}}

\* What session.call_tool can do: raise, or return a result whose content is
\* empty, whose first part has no text, or whose first part is a text.
Result(status, text) == [status |-> status, text |-> text]
Failures == {Result("raise", None), Result("no_content", None), Result("non_text", None)}

\* search_papers answers with a JSON array of identifiers: none, fewer than
\* the chain takes, as many, more; or with a text that json.loads rejects or
\* turns into a value that cannot be sliced; or with a JSON string.
DiscoverySizes == {0, ChainLimit - 1, ChainLimit, MaxIds}
DiscoveryTexts == {JsonArray(Payload(n)) : n \in DiscoverySizes} \cup
                  {Txt("not_json"), JsonString(Payload(1))}

\* The texts a tool requested by the model may answer with: any tool may
\* answer with a JSON array.
RequestedToolTexts(tool) ==
    IF tool = "search_papers" THEN DiscoveryTexts ELSE {JsonArray(Payload(1))}

\* The texts the tools of the chain may answer with for identifier pid.
ChainToolTexts(tool, pid) ==
    CASE tool = "extract_info" -> {TxtOf("info", pid)}
      [] tool = "get_full_text" -> {TxtOf("full", pid), EmptyText}
      [] tool = "summarize_paper" -> {Txt("summary")}

RequestedCallResults(tool) ==
    Failures \cup {Result("text", t) : t \in RequestedToolTexts(tool)}
ChainCallResults(tool, pid) ==
    Failures \cup {Result("text", t) : t \in ChainToolTexts(tool, pid)}

(* ------------------------------ messages ------------------------------ *)

NoId == <<>>
Msg(role, content, calls, id) ==
    [role |-> role, content |-> content, tool_calls |-> calls, tool_call_id |-> id]
SystemMessage == Msg("system", Txt("You are a helpful assistant."), <<>>, NoId)
UserMessageAsSystem(query) == Msg("system", query, <<>>, NoId)
UserMessage(query) == Msg("user", query, <<>>, NoId)
\* response.choices[0].message of the first request: content and tool calls.
AssistantMessage(calls) == Msg("assistant", Txt("answer"), calls, NoId)
\* followup.choices[0].message: the follow-up request carries no tools.
FollowupMessage == Msg("assistant", Txt("answer"), <<>>, NoId)
ToolMessageWrongId(call, text) == Msg("tool", text, <<>>, <<0, 0>>)
ToolMessage(call, text) == Msg("tool", text, <<>>, call.id)

HistoryAppendReplacing(history, m) ==
    IF Len(history) > 1 THEN [history EXCEPT ![Len(history)] = m] ELSE Append(history, m)
HistoryAppend(history, m) == Append(history, m)

ToolCall(id, name, raw) == [id |-> id, name |-> name, arguments |-> raw]


(* ------------------------------- state -------------------------------- *)

VARIABLES
    pc,                \* where the program is: see PcValues
    message_history,   \* self.message_history
    available_tools,   \* the names of self.available_tools
    sessions,          \* the keys of self.sessions
    available_prompts, \* the names of self.available_prompts, in list order
    query,             \* process_query: query
    tool_calls,        \* process_query: assistant_message.tool_calls
    tc,                \* process_query: position of the for loop over tool_calls
    paper_ids,         \* handle_search_and_summarize: paper_ids
    pid_idx,           \* handle_search_and_summarize: position of the for loop
    info_text,         \* handle_search_and_summarize: info_text
    provider_calls,    \* observer: the call_tool calls issued while dispatching tool_calls[tc]
    last_result,       \* observer: how the provider request that returned last ended
    completion_request, \* observer: the chat.completions.create call that is outstanding
    prompt_arguments,  \* observer: the arguments of the get_prompt request that is outstanding
    calls_made,        \* observer: the call_tool calls issued so far in the loop over tool_calls
    dispatch_log       \* observer: what became of each tool call of the turn, in loop order

vars == <<pc, message_history, available_tools, sessions, available_prompts, query,
          tool_calls, tc, paper_ids, pid_idx, info_text, provider_calls, last_result,
          completion_request, prompt_arguments, calls_made, dispatch_log>>

PcValues == {"start", "failed", "list_resources", "list_prompts", "chat_loop", "idle",
             "get_resource", "get_prompt", "report_error",
             "model", "call_tool", "chain_extract_info",
             "chain_get_full_text", "chain_summarize_paper", "followup", "quit"}
ChainPcs == {"chain_extract_info", "chain_get_full_text", "chain_summarize_paper"}

Min(a, b) == IF a < b THEN a ELSE b

\* The names of the tools passed to the model and tested by the chain.
AvailableToolNames == available_tools

\* client.chat.completions.create(messages=..., tools=..., tool_choice=...):
\* the first request of a turn passes the catalog, the follow-up request
\* passes the history and nothing else.
Request(messages, tools, tool_choice) ==
    [messages |-> messages, tools |-> tools, tool_choice |-> tool_choice]
NoRequest == Request(<<>>, {}, "none")
FirstRequest(history, q) == Request(Append(history, UserMessage(q)), AvailableToolNames, "auto")
FollowupRequestWithTools(history) == Request(history, AvailableToolNames, "auto")
FollowupRequest(history) == Request(history, {}, "unset")

\* One call_tool call as the observer records it.
Call(tool, arg, origin, chained) ==
    [tool |-> tool, arg |-> arg, origin |-> origin, chained |-> chained, status |-> "pending"]

\* How a call_tool call ended: it returned its text, or something was raised.
Outcome(ok) == IF ok THEN "ok" ELSE "failed"

\* The last recorded call gets its outcome.
SettleKeepsPending(calls, ok) == calls
Settle(calls, ok) ==
    [calls EXCEPT ![Len(calls)].status = Outcome(ok)]

\* One iteration of the loop over tool_calls as the observer records it.
Dispatched(index, outcome) == [index |-> index, outcome |-> outcome]
SettleDispatch(log, ok) ==
    [log EXCEPT ![Len(log)].outcome = IF ok THEN "answered" ELSE "failed"]

Init ==
    /\ pc = "start"
    /\ message_history = <<SystemMessage>>
    /\ available_tools = {}
    /\ sessions = {}
    /\ available_prompts = <<>>
    /\ query = None
    /\ tool_calls = <<>>
    /\ tc = 0
    /\ paper_ids = <<>>
    /\ pid_idx = 0
    /\ info_text = None
    /\ provider_calls = <<>>
    /\ last_result = "none"
    /\ completion_request = NoRequest
    /\ prompt_arguments = <<>>
    /\ calls_made = 0
    /\ dispatch_log = <<>>

(* ------------------- listing resources and prompts -------------------- *)

\* session.list_resources() / session.list_prompts(): raise, or a list.
Listing(ok, items) == [ok |-> ok, items |-> items]
ListResourcesResults == {Listing(FALSE, <<>>), Listing(TRUE, <<>>), Listing(TRUE, <<"papers://folders">>)}
ListPromptsResults == {Listing(FALSE, <<>>), Listing(TRUE, <<>>), Listing(TRUE, <<"generate_search_prompt">>)}

Range(s) == {s[i] : i \in DOMAIN s}

\* list_available_resources: every listed uri is cached; an error is printed.
ResourcesCached(cache, resp) == IF resp.ok THEN cache \cup Range(resp.items) ELSE cache

\* list_available_prompts: every listed prompt is cached and appended.
PromptsCached(cache, resp) == IF resp.ok THEN cache \cup Range(resp.items) ELSE cache
PromptsAppended(prompts, resp) == IF resp.ok THEN prompts \o resp.items ELSE prompts

PromptNames == Range(available_prompts)

\* The entries the resource and prompt catalogs hold.
Listed(cache, prompts) == Cardinality(cache \cap ServerResources) + Len(prompts)

(* ----------------------------- connection ----------------------------- *)

\* connect_to_server_and_run up to the chat loop: the session cannot be
\* set up or list_tools fails, and the error leaves the function; or the
\* tools, then the resources, then the prompts are listed and the loop starts.
ConnectFails ==
    /\ UNCHANGED <<last_result, completion_request>>
    /\ pc = "start"
    /\ UNCHANGED <<prompt_arguments, calls_made>>
    /\ pc' = "failed"
    /\ UNCHANGED <<message_history, available_tools, sessions, available_prompts, query,
                   tool_calls, tc, paper_ids, pid_idx, info_text, provider_calls, dispatch_log>>

\* session.list_tools() returns: self.available_tools is built from it.
ConnectListTools(catalog) ==
    /\ pc = "start"
    /\ UNCHANGED <<prompt_arguments, calls_made>>
    /\ available_tools' = catalog
    /\ pc' = "list_resources"
    /\ UNCHANGED <<message_history, sessions, available_prompts, query, tool_calls, tc,
                   paper_ids, pid_idx, info_text, provider_calls, last_result,
                   completion_request, dispatch_log>>

\* await self.list_available_resources() at connection time: a listing or
\* an error, which is printed.
ConnectListResources(resp) ==
    /\ pc = "list_resources"
    /\ UNCHANGED <<prompt_arguments, calls_made>>
    /\ sessions' = ResourcesCached(sessions, resp)
    /\ last_result' = Outcome(resp.ok)
    /\ pc' = "list_prompts"
    /\ UNCHANGED <<message_history, available_tools, available_prompts, query, tool_calls,
                   tc, paper_ids, pid_idx, info_text, provider_calls, completion_request,
                   dispatch_log>>

\* await self.list_available_prompts() at connection time, likewise.
ConnectListPrompts(resp) ==
    /\ pc = "list_prompts"
    /\ UNCHANGED <<prompt_arguments, calls_made>>
    /\ sessions' = PromptsCached(sessions, resp)
    /\ available_prompts' = PromptsAppended(available_prompts, resp)
    /\ last_result' = Outcome(resp.ok)
    /\ pc' = "chat_loop"
    /\ UNCHANGED <<message_history, available_tools, query, tool_calls, tc, paper_ids,
                   pid_idx, info_text, provider_calls, completion_request, dispatch_log>>

\* chat_loop is entered: the banner is printed and the first input is awaited.
ChatLoopStarts ==
    /\ pc = "chat_loop"
    /\ UNCHANGED <<prompt_arguments, calls_made>>
    /\ pc' = "idle"
    /\ last_result' = "none"
    /\ UNCHANGED <<message_history, available_tools, sessions, available_prompts, query,
                   tool_calls, tc, paper_ids, pid_idx, info_text, provider_calls,
                   completion_request, dispatch_log>>


(* ------------------------- the tool call loop ------------------------- *)

\* process_query, the for loop over assistant_message.tool_calls from its
\* i-th iteration to the next await: a call whose arguments do not parse is
\* skipped (continue); the first one that parses is sent to the provider;
\* after the last one the follow-up request is sent.
RECURSIVE NextParsable(_, _)
NextParsable(calls, i) ==
    IF i > Len(calls) \/ JsonParses(calls[i].arguments) THEN i
    ELSE NextParsable(calls, i + 1)

SkippedLog(log, i, j) ==
    log \o [k \in 1..(j - i) |-> Dispatched(i + k - 1, "malformed")]

Dispatch(calls, i, dlog) ==
    LET j == NextParsable(calls, i)
        log == SkippedLog(dlog, i, j)
    IN  /\ tc' = j
        /\ paper_ids' = <<>>
        /\ pid_idx' = 0
        /\ info_text' = None
        /\ IF j <= Len(calls)
           THEN /\ pc' = "call_tool"
                /\ provider_calls' = <<Call(calls[j].name, Txt("arguments"), j, FALSE)>>
                /\ calls_made' = calls_made + 1
                /\ dispatch_log' = Append(log, Dispatched(j, "pending"))
                /\ completion_request' = NoRequest
           ELSE /\ pc' = "followup"
                /\ provider_calls' = <<>>
                /\ calls_made' = 0
                /\ dispatch_log' = log
                /\ completion_request' = FollowupRequest(message_history')

\* except Exception at the end of the loop body: the loop goes on.
AfterFailedCallAbort(calls, i) == Len(calls) + 1
AfterFailedCall(calls, i) == i + 1

\* The chaining test of process_query.
ShouldChainAnyTool(tool_name, names) == {"extract_info", "summarize_paper"} \subseteq names
ShouldChainDetailOnly(tool_name, names) ==
    tool_name = "search_papers" /\ "extract_info" \in names
ShouldChain(tool_name, names) ==
    tool_name = "search_papers" /\ {"extract_info", "summarize_paper"} \subseteq names

\* paper_ids[:3]
CappedAtFour(ids) == SubSeq(ids, 1, Min(Len(ids), ChainLimit + 1))
CappedNot(ids) == ids
Capped(ids) == SubSeq(ids, 1, Min(ChainLimit, Len(ids)))

\* result.content[0].text if hasattr(result.content[0], "text") else str(result.content)
ResultText(result) == IF result.status = "text" THEN result.text ELSE Txt("repr")

(* --------------------- handle_search_and_summarize -------------------- *)

\* The for loop over paper_ids[:3] from its k-th iteration to the next
\* await: extract_info is called for the k-th identifier; after the last
\* one the function returns into the loop over tool_calls.
ChainNext(ids, k, log, dlog) ==
    IF k <= Len(Capped(ids))
    THEN /\ pc' = "chain_extract_info"
         /\ tc' = tc
         /\ paper_ids' = ids
         /\ pid_idx' = k
         /\ info_text' = None
         /\ provider_calls' = Append(log, Call("extract_info", TxtOf("paper_id", ids[k]), tc, TRUE))
         /\ calls_made' = calls_made + 1
         /\ dispatch_log' = dlog
         /\ completion_request' = NoRequest
    ELSE /\ Dispatch(tool_calls, tc + 1, dlog)

\* except Exception inside the for loop over paper_ids[:3]: the next
\* identifier is processed.
AfterFailedStepAbort(ids, k) == Len(ids) + 1
AfterFailedStep(ids, k) == k + 1

\* summarize_paper is called on text_to_summarize when it is available.
SummarizeSkipped(info, text, log) == ChainNext(paper_ids, pid_idx + 1, log, dispatch_log)
SummarizeOrNext(info, text, log) ==
    IF "summarize_paper" \in AvailableToolNames
    THEN /\ pc' = "chain_summarize_paper"
         /\ info_text' = info
         /\ provider_calls' = Append(log, Call("summarize_paper", text, tc, TRUE))
         /\ calls_made' = calls_made + 1
         /\ UNCHANGED <<tc, paper_ids, pid_idx, dispatch_log, completion_request>>
    ELSE /\ ChainNext(paper_ids, pid_idx + 1, log, dispatch_log)


\* await self.session.call_tool("extract_info", ...) returns or raises.
ChainExtractInfoReturns(result) ==
    /\ UNCHANGED <<message_history, available_tools, sessions, available_prompts, query,
                   tool_calls>>
    /\ last_result' = Outcome(result.status = "text")
    /\ pc = "chain_extract_info"
    /\ UNCHANGED prompt_arguments
    /\ LET ok == result.status = "text"
           log == Settle(provider_calls, ok)
       IN  IF ~ok
           THEN ChainNext(paper_ids, AfterFailedStep(paper_ids, pid_idx), log, dispatch_log)
           ELSE IF "get_full_text" \in AvailableToolNames
                THEN /\ pc' = "chain_get_full_text"
                     /\ info_text' = result.text
                     /\ provider_calls' =
                            Append(log, Call("get_full_text",
                                             TxtOf("paper_id", paper_ids[pid_idx]), tc, TRUE))
                     /\ calls_made' = calls_made + 1
                     /\ UNCHANGED <<tc, paper_ids, pid_idx, dispatch_log, completion_request>>
                ELSE SummarizeOrNext(result.text, PyOr(None, result.text), log)

\* await self.session.call_tool("get_full_text", ...) returns or raises.
ChainGetFullTextReturns(result) ==
    /\ UNCHANGED <<message_history, available_tools, sessions, available_prompts, query,
                   tool_calls>>
    /\ last_result' = Outcome(result.status = "text")
    /\ pc = "chain_get_full_text"
    /\ UNCHANGED prompt_arguments
    /\ LET ok == result.status = "text"
           log == Settle(provider_calls, ok)
       IN  IF ~ok
           THEN ChainNext(paper_ids, AfterFailedStep(paper_ids, pid_idx), log, dispatch_log)
           ELSE SummarizeOrNext(info_text, PyOr(result.text, info_text), log)

\* await self.session.call_tool("summarize_paper", ...) returns or raises:
\* either way the next identifier is processed.
ChainSummarizePaperReturns(result) ==
    /\ UNCHANGED <<message_history, available_tools, sessions, available_prompts, query,
                   tool_calls>>
    /\ last_result' = Outcome(result.status = "text")
    /\ pc = "chain_summarize_paper"
    /\ UNCHANGED prompt_arguments
    /\ ChainNext(paper_ids, pid_idx + 1, Settle(provider_calls, result.status = "text"),
                 dispatch_log)

(* ---------------------------- process_query --------------------------- *)

\* The tool calls a model response of the turn may carry: as many as fit,
\* each naming a tool it was given: the discovery tool or another tool.
RequestedTools == {"search_papers", "extract_info"}
\* The id of a tool call is the model's choice, never used twice: here the
\* place of its assistant message in the history and its place in the message.
CallId(history, j) == <<Len(history) + 2, j>>
CallSeqs(history, names, n) ==
    {[j \in 1..n |-> ToolCall(CallId(history, j), f[j][1], f[j][2])] :
        f \in [1..n -> names \X RawArguments]}
RECURSIVE Requested(_)
\* The tool-call requests the assistant messages of a history carry.
Requested(history) ==
    IF history = <<>> THEN 0
    ELSE Len(history[Len(history)].tool_calls) +
         Requested(SubSeq(history, 1, Len(history) - 1))
\* A turn that requests n tools appends at most 3 + n messages.  The session
\* is explored while a turn still fits: queries, prompts and resource reads
\* are issued in the states where one does.
Fits(history, n) ==
    /\ Len(history) + Listed(sessions, available_prompts) + (IF n = 0 THEN 2 ELSE 3 + n)
           <= MaxHistory
    /\ Requested(history) + n <= MaxCalls
ModelResponses(history, names) ==
    UNION {CallSeqs(history, names \cap RequestedTools, n) :
              n \in {m \in 0..MaxCalls : Fits(history, m)}}

\* process_query is entered: the first completion request is sent.
ProcessQuery(q) ==
    /\ UNCHANGED last_result
    /\ Fits(message_history, 0)
    /\ completion_request' = FirstRequest(message_history, q)
    /\ pc' = "model"
    /\ query' = q
    /\ UNCHANGED <<message_history, available_tools, tool_calls, tc, paper_ids, pid_idx,
                   info_text, provider_calls, dispatch_log>>

\* The first completion request raises: the error leaves process_query before
\* anything is appended and reaches the except clause of its caller
\* (chat_loop or execute_prompt).
ModelRaisesRecordingQuery ==
    /\ UNCHANGED last_result
    /\ completion_request' = NoRequest
    /\ pc = "model"
    /\ UNCHANGED <<prompt_arguments, calls_made>>
    /\ pc' = "report_error"
    /\ message_history' = Append(message_history, UserMessage(query))
    /\ UNCHANGED <<query, available_tools, sessions, available_prompts,
                   tool_calls, tc, paper_ids, pid_idx, info_text, provider_calls,
                   dispatch_log>>
ModelRaises ==
    /\ UNCHANGED last_result
    /\ completion_request' = NoRequest
    /\ pc = "model"
    /\ UNCHANGED <<prompt_arguments, calls_made>>
    /\ pc' = "report_error"
    /\ UNCHANGED <<message_history, available_tools, sessions, available_prompts, query,
                   tool_calls, tc, paper_ids, pid_idx, info_text, provider_calls,
                   dispatch_log>>

\* The first completion request returns: the user message and the assistant
\* message are appended; without tool calls the answer is printed, with tool
\* calls the loop over them starts.
ModelReturns(calls) ==
    /\ UNCHANGED last_result
    /\ pc = "model"
    /\ UNCHANGED prompt_arguments
    /\ message_history' =
           HistoryAppend(HistoryAppend(message_history, UserMessage(query)),
                         AssistantMessage(calls))
    /\ IF calls = <<>>
       THEN /\ pc' = "idle"
            /\ query' = None
            /\ completion_request' = NoRequest
            /\ UNCHANGED <<tool_calls, tc, paper_ids, pid_idx, info_text, provider_calls,
                           calls_made, dispatch_log>>
       ELSE /\ tool_calls' = calls
            /\ query' = query
            /\ Dispatch(calls, 1, dispatch_log)
    /\ UNCHANGED <<available_tools, sessions, available_prompts>>

\* await self.session.call_tool(tool_name, arguments=tool_args) returns or
\* raises.  A result with a first content part becomes a tool message, and a
\* search_papers result may start the chain; anything else is caught and
\* printed.
ToolCallReturns(result) ==
    /\ last_result' = Outcome(result.status \in {"text", "non_text"})
    /\ pc = "call_tool"
    /\ UNCHANGED prompt_arguments
    /\ LET call == tool_calls[tc]
           ok == result.status \in {"text", "non_text"}
           text == ResultText(result)
           log == Settle(provider_calls, ok)
           dlog == SettleDispatch(dispatch_log, ok)
       IN  IF ~ok
           THEN /\ UNCHANGED message_history
                /\ Dispatch(tool_calls, AfterFailedCall(tool_calls, tc), dlog)
           ELSE /\ message_history' = HistoryAppend(message_history, ToolMessage(call, text))
                /\ IF ShouldChain(call.name, AvailableToolNames) /\ ParsesAsList(text)
                   THEN ChainNext(text.ids, 1, log, dlog)
                   ELSE Dispatch(tool_calls, tc + 1, dlog)
    /\ UNCHANGED <<available_tools, sessions, available_prompts, query, tool_calls>>

\* The follow-up completion request returns: its message is appended.
FollowupReturns ==
    /\ completion_request' = NoRequest
    /\ last_result' = "none"
    /\ pc = "followup"
    /\ UNCHANGED <<prompt_arguments, calls_made>>
    /\ message_history' = HistoryAppend(message_history, FollowupMessage)
    /\ pc' = "idle"
    /\ query' = None
    /\ tool_calls' = <<>>
    /\ tc' = 0
    /\ dispatch_log' = <<>>
    /\ UNCHANGED <<available_tools, sessions, available_prompts, paper_ids, pid_idx,
                   info_text, provider_calls>>

\* The follow-up completion request raises: the error leaves process_query
\* and reaches the except clause of its caller.
FollowupRaises ==
    /\ completion_request' = NoRequest
    /\ last_result' = "none"
    /\ pc = "followup"
    /\ UNCHANGED <<prompt_arguments, calls_made>>
    /\ pc' = "report_error"
    /\ query' = None
    /\ tool_calls' = <<>>
    /\ tc' = 0
    /\ dispatch_log' = <<>>
    /\ UNCHANGED <<message_history, available_tools, sessions, available_prompts, paper_ids,
                   pid_idx, info_text, provider_calls>>

\* except Exception in chat_loop (or in execute_prompt): the error is printed
\* and the loop reads the next line.
AfterErrorExits == "failed"
AfterError == "idle"
ErrorReported ==
    /\ pc = "report_error"
    /\ pc' = AfterError
    /\ query' = None
    /\ UNCHANGED <<message_history, available_tools, sessions, available_prompts,
                   tool_calls, tc, paper_ids, pid_idx, info_text, provider_calls,
                   last_result, completion_request, prompt_arguments, calls_made,
                   dispatch_log>>

(* ------------------------------ chat_loop ----------------------------- *)

\* What the user may type after "run prompt", and the uris the user may ask for.
TypedPromptNames == {"generate_search_prompt", "no_such_prompt"}
TypedUris == {"papers://folders", "papers://no_such_topic"}

\* session.get_prompt(): raise, a result without messages, or a prompt text.
GetPromptResults == {Result("raise", None), Result("no_messages", None)} \cup
                    {Result("text", t) : t \in PromptTexts}
\* session.read_resource(): raise, a result without contents, or a text.
ReadResourceResults == {Result("raise", None), Result("no_content", None),
                        Result("text", Txt("resource"))}

\* An empty line, "help" or "list tools": something is printed at most.
CmdHelp ==
    /\ pc = "idle"
    /\ UNCHANGED vars

CmdListTools ==
    /\ pc = "idle"
    /\ UNCHANGED vars

\* "list resources": list_available_resources.
CmdListResources(resp) ==
    /\ UNCHANGED <<last_result, completion_request>>
    /\ pc = "idle"
    /\ UNCHANGED <<prompt_arguments, calls_made>>
    /\ Len(message_history) + Listed(ResourcesCached(sessions, resp), available_prompts)
           <= MaxHistory
    /\ sessions' = ResourcesCached(sessions, resp)
    /\ UNCHANGED <<pc, message_history, available_tools, available_prompts, query,
                   tool_calls, tc, paper_ids, pid_idx, info_text, provider_calls,
                   dispatch_log>>

\* "list prompts": list_available_prompts.
CmdListPrompts(resp) ==
    /\ UNCHANGED <<last_result, completion_request>>
    /\ pc = "idle"
    /\ UNCHANGED <<prompt_arguments, calls_made>>
    /\ Len(PromptsAppended(available_prompts, resp)) <= MaxPromptEntries
    /\ Len(message_history) + Listed(sessions, PromptsAppended(available_prompts, resp))
           <= MaxHistory
    /\ sessions' = PromptsCached(sessions, resp)
    /\ available_prompts' = PromptsAppended(available_prompts, resp)
    /\ UNCHANGED <<pc, message_history, available_tools, query, tool_calls, tc, paper_ids,
                   pid_idx, info_text, provider_calls, dispatch_log>>

\* What get_resource prints for a read_resource outcome: the error that was
\* raised, the warning that there is no content, or the text of the resource.
Report(result) ==
    CASE result.status = "raise" -> "failed"
      [] result.status = "no_content" -> "empty"
      [] OTHER -> "ok"

\* "papers://...": get_resource asks the provider for the uri as typed and
\* prints the resource, a warning or the error.
CmdGetResource(uri, result) ==
    /\ pc = "idle"
    /\ Fits(message_history, 0)
    /\ UNCHANGED <<prompt_arguments, calls_made>>
    /\ pc' = "get_resource"
    /\ query' = Txt(uri)
    /\ last_result' = Report(result)
    /\ UNCHANGED <<message_history, available_tools, sessions, available_prompts,
                   tool_calls, tc, paper_ids, pid_idx, info_text, provider_calls,
                   completion_request, dispatch_log>>

\* Where get_resource ends after its report: the error read_resource raised
\* is caught and printed like the other outcomes, and the function returns.
ResourceErrorEscapes(report) == IF report = "failed" THEN "failed" ELSE "idle"
AfterReport(report) == "idle"

\* get_resource returns and the next line is read.
GetResourceReturns ==
    /\ pc = "get_resource"
    /\ UNCHANGED <<prompt_arguments, calls_made>>
    /\ pc' = AfterReport(last_result)
    /\ query' = None
    /\ last_result' = "none"
    /\ UNCHANGED <<message_history, available_tools, sessions, available_prompts,
                   tool_calls, tc, paper_ids, pid_idx, info_text, provider_calls,
                   completion_request, dispatch_log>>

\* A value of a "key=value" item of the command line, as python holds it: an
\* int, or a str given by its characters.
IntValue(n) == [type |-> "int", n |-> n, s |-> <<>>]
StrValue(chars) == [type |-> "str", n |-> 0, s |-> chars]

Digits == <<"0", "1", "2", "3", "4", "5", "6", "7", "8", "9">>
IsDigit(c) == \E i \in DOMAIN Digits : Digits[i] = c
DigitValue(c) == (CHOOSE i \in DOMAIN Digits : Digits[i] = c) - 1

\* value.isdigit(): at least one character, and every character a digit.
IsDigitString(chars) == chars # <<>> /\ \A i \in DOMAIN chars : IsDigit(chars[i])

\* int(value) of a string of digits.
RECURSIVE IntOf(_)
IntOf(chars) ==
    IF chars = <<>> THEN 0
    ELSE 10 * IntOf(SubSeq(chars, 1, Len(chars) - 1)) + DigitValue(chars[Len(chars)])

\* str(n) of a natural number: its decimal numeral.
RECURSIVE DecimalOf(_)
DecimalOf(n) ==
    IF n < 10 THEN <<Digits[n + 1]>>
    ELSE DecimalOf(n \div 10) \o <<Digits[(n % 10) + 1]>>

\* str(v).
StrUncoerced(v) == v
Str(v) == IF v.type = "int" THEN StrValue(DecimalOf(v.n)) ELSE v

\* kwargs[key] = int(value) if value.isdigit() else value, for the values of
\* the items typed after the prompt name (the keys are not modelled).
Kwargs(items) ==
    [i \in DOMAIN items |->
        IF IsDigitString(items[i]) THEN IntValue(IntOf(items[i])) ELSE StrValue(items[i])]

\* args = {k: str(v) for k, v in args.items()}.
StringArgs(kwargs) == [i \in DOMAIN kwargs |-> Str(kwargs[i])]

\* What the user types after "run prompt <name>": nothing, a number with
\* leading zeros, or a word.
TypedValues == {<<"0", "0", "7">>, <<"l", "l", "m">>}
TypedItems == {<<>>} \cup {<<v>> : v \in TypedValues}

\* "run prompt <name> ...": a name not in available_prompts is reported;
\* execute_prompt turns the arguments into strings and asks the provider for
\* the prompt.
CmdRunPrompt(name, items) ==
    /\ pc = "idle"
    /\ Fits(message_history, 0)
    /\ IF name \in PromptNames
       THEN /\ pc' = "get_prompt"
            /\ prompt_arguments' = StringArgs(Kwargs(items))
       ELSE UNCHANGED <<pc, prompt_arguments>>
    /\ UNCHANGED <<message_history, available_tools, sessions, available_prompts, query,
                   tool_calls, tc, paper_ids, pid_idx, info_text, provider_calls,
                   last_result, completion_request, calls_made, dispatch_log>>

\* session.get_prompt() returns: the text of the prompt is handed to
\* process_query; a provider error or a result without messages is printed.
GetPromptReturns(result) ==
    /\ pc = "get_prompt"
    /\ prompt_arguments' = <<>>
    /\ IF result.status = "text"
       THEN ProcessQuery(result.text)
       ELSE /\ pc' = "idle"
            /\ UNCHANGED <<message_history, available_tools, query, tool_calls, tc,
                           paper_ids, pid_idx, info_text, provider_calls, last_result,
                           completion_request, dispatch_log>>
    /\ UNCHANGED <<sessions, available_prompts, calls_made>>

\* Any other line: process_query(query).
CmdQuery(q) ==
    /\ pc = "idle"
    /\ UNCHANGED <<prompt_arguments, calls_made>>
    /\ ProcessQuery(q)
    /\ UNCHANGED <<sessions, available_prompts>>

\* "quit": the loop ends and the session is closed.
CmdQuit ==
    /\ UNCHANGED <<last_result, completion_request>>
    /\ pc = "idle"
    /\ UNCHANGED <<prompt_arguments, calls_made>>
    /\ pc' = "quit"
    /\ UNCHANGED <<message_history, available_tools, sessions, available_prompts, query,
                   tool_calls, tc, paper_ids, pid_idx, info_text, provider_calls,
                   dispatch_log>>

(* --------------------------- specification ---------------------------- *)

Next ==
    \/ ConnectFails
    \/ \E catalog \in Catalogs : ConnectListTools(catalog)
    \/ \E resp \in ListResourcesResults : ConnectListResources(resp)
    \/ \E resp \in ListPromptsResults : ConnectListPrompts(resp)
    \/ ChatLoopStarts
    \/ CmdHelp
    \/ CmdListTools
    \/ \E resp \in ListResourcesResults : CmdListResources(resp)
    \/ \E resp \in ListPromptsResults : CmdListPrompts(resp)
    \/ \E uri \in TypedUris, result \in ReadResourceResults : CmdGetResource(uri, result)
    \/ GetResourceReturns
    \/ \E name \in TypedPromptNames, items \in TypedItems : CmdRunPrompt(name, items)
    \/ \E result \in GetPromptResults : GetPromptReturns(result)
    \/ \E q \in QueryTexts : CmdQuery(q)
    \/ CmdQuit
    \/ ModelRaises
    \/ \E calls \in ModelResponses(message_history, AvailableToolNames) :
          ModelReturns(calls)
    \/ /\ pc = "call_tool"
       /\ \E result \in RequestedCallResults(tool_calls[tc].name) : ToolCallReturns(result)
    \/ /\ pc = "chain_extract_info"
       /\ \E result \in ChainCallResults("extract_info", paper_ids[pid_idx]) :
              ChainExtractInfoReturns(result)
    \/ /\ pc = "chain_get_full_text"
       /\ \E result \in ChainCallResults("get_full_text", paper_ids[pid_idx]) :
              ChainGetFullTextReturns(result)
    \/ /\ pc = "chain_summarize_paper"
       /\ \E result \in ChainCallResults("summarize_paper", paper_ids[pid_idx]) :
              ChainSummarizePaperReturns(result)
    \/ FollowupReturns
    \/ FollowupRaises
    \/ ErrorReported

Spec == Init /\ [][Next]_vars

\* The steps that end a wait of process_query: a completion request or a
\* call_tool call returns or raises, or the except clause of the caller has
\* printed the error.
TurnReturns ==
    \/ ModelRaises
    \/ \E calls \in ModelResponses(message_history, AvailableToolNames) :
          ModelReturns(calls)
    \/ /\ pc = "call_tool"
       /\ \E result \in RequestedCallResults(tool_calls[tc].name) : ToolCallReturns(result)
    \/ /\ pc = "chain_extract_info"
       /\ \E result \in ChainCallResults("extract_info", paper_ids[pid_idx]) :
              ChainExtractInfoReturns(result)
    \/ /\ pc = "chain_get_full_text"
       /\ \E result \in ChainCallResults("get_full_text", paper_ids[pid_idx]) :
              ChainGetFullTextReturns(result)
    \/ /\ pc = "chain_summarize_paper"
       /\ \E result \in ChainCallResults("summarize_paper", paper_ids[pid_idx]) :
              ChainSummarizePaperReturns(result)
    \/ FollowupReturns
    \/ FollowupRaises
    \/ ErrorReported

\* The program at the prompt after a connection to the server with all its
\* tools; the listings of resources and prompts, which play no part in
\* process_query, found nothing.
Connected ==
    /\ pc = "idle"
    /\ message_history = <<SystemMessage>>
    /\ available_tools = ServerTools
    /\ available_prompts = <<>>
    /\ sessions = {}
    /\ query = None
    /\ tool_calls = <<>>
    /\ tc = 0
    /\ paper_ids = <<>>
    /\ pid_idx = 0
    /\ info_text = None
    /\ provider_calls = <<>>
    /\ last_result = "none"
    /\ completion_request = NoRequest
    /\ prompt_arguments = <<>>
    /\ calls_made = 0
    /\ dispatch_log = <<>>

\* The chat loop of a user who only submits queries.
Turns ==
    \/ \E q \in QueryTexts : CmdQuery(q)
    \/ TurnReturns

\* The turns of the program under the assumption that every request
\* eventually returns or fails.
FairSpec == Connected /\ [][Turns]_vars /\ WF_vars(TurnReturns)

TypeOK ==
    /\ pc \in PcValues
    /\ available_tools \subseteq ServerTools
    /\ tc \in 0..(MaxCalls + 1)
    /\ pid_idx \in 0..ChainLimit
    /\ Len(message_history) <= MaxHistory
    /\ Len(available_prompts) <= MaxPromptEntries
    /\ last_result \in {"none", "ok", "empty", "failed"}
    /\ calls_made \in 0..(MaxCalls * (1 + 3 * ChainLimit))


(* ------------------- chat_bot_openAI.py: process_query ----------------- *)

\* The standalone chatbot runs its tools in the process. Its state uses the
\* variables of the same name: message_history is the local list messages
\* of process_query, dispatch_log what became of each tool call.

\* tools
StandaloneTools == {"search_papers", "extract_info", "summarize_paper"}

\* execute_tool returns json.dumps({"paper_ids": result}) for search_papers.
PaperIdsObject(ids) == [kind |-> "json_object", ids |-> ids]

\* What one iteration of the loop over msg.tool_calls can come to:
\* json.loads or execute_tool raises; the tool returns a text; or, for
\* search_papers, the papers are printed and process_query returns, or a
\* paper's stored info fails to load.
StandaloneOutcomes(call) ==
    IF ~JsonParses(call.arguments) THEN {"raise"}
    ELSE IF call.name = "search_papers" THEN {"raise", "printed", "chain_raise"}
    ELSE {"raise", "text"}

\* The content of the tool message of an iteration.
StandaloneResult(call) ==
    IF call.name = "search_papers" THEN PaperIdsObject(Payload(ChainLimit)) ELSE Txt("text")

StandaloneInit ==
    /\ pc = "standalone_idle"
    /\ message_history = <<>>
    /\ available_tools = StandaloneTools
    /\ sessions = {}
    /\ available_prompts = <<>>
    /\ query = None
    /\ tool_calls = <<>>
    /\ tc = 0
    /\ paper_ids = <<>>
    /\ pid_idx = 0
    /\ info_text = None
    /\ provider_calls = <<>>
    /\ last_result = "none"
    /\ completion_request = NoRequest
    /\ prompt_arguments = <<>>
    /\ calls_made = 0
    /\ dispatch_log = <<>>

\* chat_loop reads a line and calls process_query, which sends the first
\* completion request.
StandaloneQuery(q) ==
    /\ pc = "standalone_idle"
    /\ pc' = "standalone_model"
    /\ query' = q
    /\ message_history' = <<UserMessage(q)>>
    /\ completion_request' = Request(message_history', StandaloneTools, "auto")
    /\ last_result' = "none"
    /\ tool_calls' = <<>>
    /\ tc' = 0
    /\ dispatch_log' = <<>>
    /\ UNCHANGED <<available_tools, sessions, available_prompts, paper_ids, pid_idx,
                   info_text, provider_calls, prompt_arguments, calls_made>>

\* The first completion request raises: chat_loop prints the error.
StandaloneModelRaises ==
    /\ pc = "standalone_model"
    /\ pc' = "standalone_idle"
    /\ completion_request' = NoRequest
    /\ last_result' = "failed"
    /\ UNCHANGED <<message_history, available_tools, sessions, available_prompts, query,
                   tool_calls, tc, paper_ids, pid_idx, info_text, provider_calls,
                   prompt_arguments, calls_made, dispatch_log>>

\* The first completion request returns: without tool calls the answer is
\* printed, with tool calls the loop over them starts.
StandaloneModelReturns(calls) ==
    /\ pc = "standalone_model"
    /\ completion_request' = NoRequest
    /\ tool_calls' = calls
    /\ IF calls = <<>>
       THEN pc' = "standalone_idle" /\ tc' = 0
       ELSE pc' = "standalone_tool" /\ tc' = 1
    /\ UNCHANGED <<message_history, available_tools, sessions, available_prompts, query,
                   paper_ids, pid_idx, info_text, provider_calls, last_result,
                   prompt_arguments, calls_made, dispatch_log>>

\* One iteration of the loop over msg.tool_calls.  An exception leaves
\* process_query and is printed by chat_loop.  Otherwise msg and the tool
\* message are appended; after search_papers the papers are printed and
\* process_query returns; after the last tool call the follow-up request is
\* sent.
StandaloneToolRuns(outcome) ==
    /\ pc = "standalone_tool"
    /\ LET call == tool_calls[tc]
       IN  /\ outcome \in StandaloneOutcomes(call)
           /\ last_result' = Outcome(outcome \in {"text", "printed"})
           /\ dispatch_log' =
                  Append(dispatch_log,
                         Dispatched(tc, IF outcome = "raise" THEN "failed" ELSE "answered"))
           /\ message_history' =
                  IF outcome = "raise" THEN message_history
                  ELSE message_history \o
                           <<AssistantMessage(tool_calls),
                             ToolMessage(call, StandaloneResult(call))>>
           /\ IF outcome = "text"
              THEN IF tc < Len(tool_calls)
                   THEN /\ pc' = "standalone_tool"
                        /\ tc' = tc + 1
                        /\ completion_request' = NoRequest
                   ELSE /\ pc' = "standalone_followup"
                        /\ tc' = tc
                        /\ completion_request' = FollowupRequest(message_history')
              ELSE /\ pc' = "standalone_idle"
                   /\ tc' = tc
                   /\ completion_request' = NoRequest
    /\ UNCHANGED <<available_tools, sessions, available_prompts, query, tool_calls,
                   paper_ids, pid_idx, info_text, provider_calls, prompt_arguments,
                   calls_made>>

\* The follow-up completion request returns and its answer is printed.
StandaloneFollowupReturns ==
    /\ pc = "standalone_followup"
    /\ pc' = "standalone_idle"
    /\ completion_request' = NoRequest
    /\ last_result' = "ok"
    /\ UNCHANGED <<message_history, available_tools, sessions, available_prompts, query,
                   tool_calls, tc, paper_ids, pid_idx, info_text, provider_calls,
                   prompt_arguments, calls_made, dispatch_log>>

\* The follow-up completion request raises: chat_loop prints the error.
StandaloneFollowupRaises ==
    /\ pc = "standalone_followup"
    /\ pc' = "standalone_idle"
    /\ completion_request' = NoRequest
    /\ last_result' = "failed"
    /\ UNCHANGED <<message_history, available_tools, sessions, available_prompts, query,
                   tool_calls, tc, paper_ids, pid_idx, info_text, provider_calls,
                   prompt_arguments, calls_made, dispatch_log>>

\* "quit": chat_loop ends.
StandaloneQuit ==
    /\ pc = "standalone_idle"
    /\ pc' = "standalone_quit"
    /\ UNCHANGED <<message_history, available_tools, sessions, available_prompts, query,
                   tool_calls, tc, paper_ids, pid_idx, info_text, provider_calls,
                   last_result, completion_request, prompt_arguments, calls_made,
                   dispatch_log>>

StandaloneNext ==
    \/ \E q \in QueryTexts : StandaloneQuery(q)
    \/ StandaloneQuit
    \/ StandaloneModelRaises
    \/ /\ pc = "standalone_model"
       /\ \E calls \in UNION {CallSeqs(message_history, StandaloneTools, n) : n \in 0..MaxCalls} :
              StandaloneModelReturns(calls)
    \/ \E outcome \in {"raise", "text", "printed", "chain_raise"} : StandaloneToolRuns(outcome)
    \/ StandaloneFollowupReturns
    \/ StandaloneFollowupRaises

StandaloneSpec == StandaloneInit /\ [][StandaloneNext]_vars

(* ------------------------------- claims ------------------------------- *)

IsPrefix(a, b) == Len(a) <= Len(b) /\ SubSeq(b, 1, Len(a)) = a

\* The arguments of a tool call that are no JSON.
Malformed(raw) == raw = "{not json"

ToolMessages(history) == {i \in DOMAIN history : history[i].role = "tool"}

\* The tool calls of the turn that got a tool message.
HasToolMessage(history, call) ==
    \E i \in ToolMessages(history) : history[i].tool_call_id = call.id

\* The call_tool calls the chain issued while dispatching tool_calls[tc].
ChainedCalls == {k \in DOMAIN provider_calls : provider_calls[k].chained}

\* C1: the message history only grows: every step of the program (a turn, a
\* prompt execution, a list or resource command, a failing tool call, chain
\* step or model request) leaves the history it found as a prefix of the
\* history it leaves.
C1_HistoryAppendOnly == [][IsPrefix(message_history, message_history')]_vars

\* A turn with a failed or malformed tool call has run to its follow-up
\* request, with an answered tool call in the history.
C1_Witness ==
    /\ pc = "followup"
    /\ Len(message_history) > 3
    /\ \E k \in DOMAIN dispatch_log : dispatch_log[k].outcome \in {"failed", "malformed"}

\* The most recent assistant message before place i of a history (0: none).
LastAssistantBefore(history, i) ==
    LET before == {a \in 1..(i - 1) : history[a].role = "assistant"}
    IN  IF before = {} THEN 0 ELSE CHOOSE a \in before : \A b \in before : b <= a

\* C2: every tool message of the history carries the id of a tool call of
\* the most recent assistant message before it.
C2_ToolCallCorrelation ==
    \A i \in ToolMessages(message_history) :
        LET a == LastAssistantBefore(message_history, i)
        IN  /\ a > 0
            /\ \E j \in DOMAIN message_history[a].tool_calls :
                   message_history[a].tool_calls[j].id = message_history[i].tool_call_id

\* A tool call was answered in a turn that follows a turn with an assistant
\* message of its own.
C2_Witness ==
    \E i \in ToolMessages(message_history) :
        \E a \in 1..(i - 1) :
            /\ message_history[a].role = "assistant"
            /\ a < LastAssistantBefore(message_history, i)

\* C3: a tool call whose arguments are no JSON never reaches the provider:
\* no call_tool call, requested or chained, is issued for it, and the loop
\* passes over it, wherever it stands among the tool calls.
C3_MalformedNeverInvoked ==
    /\ \A k \in DOMAIN provider_calls :
           ~Malformed(tool_calls[provider_calls[k].origin].arguments)
    /\ \A k \in DOMAIN dispatch_log :
           Malformed(tool_calls[dispatch_log[k].index].arguments)
               => dispatch_log[k].outcome = "malformed"

\* A malformed search_papers call was passed over and the next tool call,
\* a well-formed search_papers call, runs its chain.
C3_Witness ==
    /\ pc \in ChainPcs
    /\ tc = 2
    /\ Malformed(tool_calls[1].arguments)
    /\ tool_calls[1].name = "search_papers"
    /\ dispatch_log[1].outcome = "malformed"


\* The follow-up request is sent when the loop over the tool calls is left.
FollowupSent == pc = "followup"

\* C4 (as claimed): when the follow-up request is sent, every tool call with
\* malformed arguments has a tool message carrying its id in the history.
C4_MalformedCallAnswered ==
    FollowupSent =>
        \A j \in DOMAIN tool_calls :
            Malformed(tool_calls[j].arguments) => HasToolMessage(message_history, tool_calls[j])

\* C5 (as claimed): when the follow-up request is sent, every tool call whose
\* provider invocation raised or returned no content has a tool message
\* carrying its id in the history.
C5_FailedCallAnswered ==
    FollowupSent =>
        \A k \in DOMAIN dispatch_log :
            dispatch_log[k].outcome = "failed"
                => HasToolMessage(message_history, tool_calls[dispatch_log[k].index])

\* The tool phase of a turn: a call_tool call is outstanding.
ToolPhase == {"call_tool"} \cup ChainPcs

\* Every tool call of the assistant message was dispatched, in order: the
\* malformed ones passed over, the others sent to the provider.
AllDispatched(log, calls) ==
    /\ Len(log) = Len(calls)
    /\ \A k \in DOMAIN log :
           /\ log[k].index = k
           /\ IF Malformed(calls[k].arguments)
              THEN log[k].outcome = "malformed"
              ELSE log[k].outcome \in {"failed", "answered"}

\* How far the tool phase has come: the tool call, the identifier of its
\* chain and the step of that identifier's chain.
Stage ==
    CASE pc = "chain_extract_info" -> 1
      [] pc = "chain_get_full_text" -> 2
      [] pc = "chain_summarize_paper" -> 3
      [] OTHER -> 0
Progress == 16 * tc + 4 * pid_idx + Stage

\* C6: a malformed or failed tool call does not end the turn: the tool phase
\* is only ever left by sending the follow-up request, every step in it
\* moves on (to the next chain step, identifier or tool call), and when the
\* follow-up request is sent every tool call of the assistant message has
\* been dispatched in order, whatever became of the calls before it.
C6_FailuresDoNotAbortTurn ==
    [][/\ (pc \in ToolPhase => pc' \in ToolPhase \cup {"followup"})
       /\ (pc \in ToolPhase /\ pc' \in ToolPhase => Progress' > Progress)
       /\ (pc' = "followup" /\ pc # "followup" => AllDispatched(dispatch_log', tool_calls'))]_vars

\* The first tool call failed at the provider, the second was still sent and
\* answered, and the follow-up request is out.
C6_Witness ==
    /\ pc = "followup"
    /\ Len(dispatch_log) = 2
    /\ dispatch_log[1].outcome = "failed"
    /\ dispatch_log[2].outcome = "answered"

\* C7: chained calls are only issued right after a successful search_papers
\* call requested by the model, and only with extract_info and
\* summarize_paper both among the available tools.
C7_ChainTrigger ==
    (pc \in ChainPcs \/ ChainedCalls # {}) =>
        /\ provider_calls # <<>>
        /\ ~provider_calls[1].chained
        /\ provider_calls[1].tool = "search_papers"
        /\ provider_calls[1].status = "ok"
        /\ tool_calls[tc].name = "search_papers"
        /\ ChainedCalls = 2..Len(provider_calls)
        /\ "extract_info" \in available_tools
        /\ "summarize_paper" \in available_tools

\* The chain runs after a search_papers call that was the second tool call
\* of the message, the first being another tool answered with a JSON array.
C7_Witness ==
    /\ pc = "chain_extract_info"
    /\ tc = 2
    /\ tool_calls[1].name = "extract_info"
    /\ \E i \in ToolMessages(message_history) :
           /\ message_history[i].tool_call_id = tool_calls[1].id
           /\ message_history[i].content.kind = "json_array"

\* A search_papers call of the turn was answered with a JSON array of at
\* least one identifier.
DiscoveryAnswered ==
    \E j \in DOMAIN tool_calls : \E i \in ToolMessages(message_history) :
        /\ tool_calls[j].name = "search_papers"
        /\ message_history[i].tool_call_id = tool_calls[j].id
        /\ message_history[i].content.kind = "json_array"
        /\ message_history[i].content.ids # <<>>

\* The step in which a search_papers call returns a JSON array of at least
\* one identifier and its tool message is appended.
DiscoverySucceeds ==
    /\ pc = "call_tool"
    /\ tool_calls[tc].name = "search_papers"
    /\ Len(message_history') = Len(message_history) + 1
    /\ message_history'[Len(message_history')].role = "tool"
    /\ message_history'[Len(message_history')].content.kind = "json_array"
    /\ message_history'[Len(message_history')].content.ids # <<>>

\* C8 (as claimed): with extract_info but no summarize_paper in the catalog,
\* a successful discovery call is followed by a detail call for the first
\* identifier.
C8_DetailOnlyChain ==
    [][(/\ DiscoverySucceeds
        /\ "extract_info" \in available_tools
        /\ "summarize_paper" \notin available_tools)
       => /\ pc' = "chain_extract_info"
          /\ provider_calls'[Len(provider_calls')].tool = "extract_info"]_vars

\* C8 (amended): with search_papers and extract_info but no summarize_paper
\* in the catalog no chained call is made at all, neither detail nor
\* condensation: a successful discovery call is followed by the next tool
\* call of the message or by the follow-up request.
C8_NoChainWithoutCondensation ==
    [][("summarize_paper" \notin available_tools' /\ "extract_info" \in available_tools')
       => /\ pc' \notin ChainPcs
          /\ \A k \in DOMAIN provider_calls' : ~provider_calls'[k].chained
          /\ (DiscoverySucceeds => /\ pc' \in {"call_tool", "followup"}
                                   /\ tc' > tc)]_vars

\* Without summarize_paper a search_papers call was answered with
\* identifiers and the follow-up request is out.
C8_Witness ==
    /\ "summarize_paper" \notin available_tools
    /\ "extract_info" \in available_tools
    /\ pc = "followup"
    /\ DiscoveryAnswered

\* The identifiers the chain asked extract_info about, in call order.
ExtractCalls ==
    SelectSeq(provider_calls, LAMBDA c : c.chained /\ c.tool = "extract_info")

\* The identifier a chained call is about.
PidOf(call) == call.arg.ids[1]

\* min(n, 3)
Min3(n) == IF n < 3 THEN n ELSE 3

\* C9: of a discovery result of n identifiers the chain takes the first
\* min(n, 3) in array order and never one at a later position: while the
\* chain runs, the extract_info calls made so far are for the first pid_idx
\* identifiers in order, every chained call is for one of the first three,
\* and the chain is only left after the min(n, 3)-th identifier.
C9_ChainCap ==
    [][/\ (pc' \in ChainPcs =>
              /\ pid_idx' \in 1..Min3(Len(paper_ids'))
              /\ Len(ExtractCalls') = pid_idx'
              /\ \A k \in 1..pid_idx' : PidOf(ExtractCalls'[k]) = paper_ids'[k]
              /\ \A k \in DOMAIN provider_calls' :
                     provider_calls'[k].chained =>
                         \E m \in 1..Min3(Len(paper_ids')) :
                             PidOf(provider_calls'[k]) = paper_ids'[m])
       /\ (pc \notin ChainPcs /\ pc' \in ChainPcs =>
              /\ pc = "call_tool"
              /\ Len(message_history') = Len(message_history) + 1
              /\ paper_ids' = message_history'[Len(message_history')].content.ids
              /\ pid_idx' = 1)
       /\ (pc \in ChainPcs /\ pc' \notin ChainPcs =>
              pid_idx = Min3(Len(paper_ids)))]_vars

\* The chain is at the third of more than three identifiers.
C9_Witness ==
    /\ pc = "chain_summarize_paper"
    /\ Len(paper_ids) > 3
    /\ pid_idx = 3

\* The chained call that follows a successful chain step.
StepAfter(call) ==
    CASE call.tool = "extract_info" ->
             IF "get_full_text" \in available_tools THEN "get_full_text" ELSE "summarize_paper"
      [] call.tool = "get_full_text" -> "summarize_paper"
      [] OTHER -> "extract_info"

\* C10: a failing chain step for one identifier does not stop the chain:
\* whatever a chain step returns, the chain either goes on with the same
\* identifier, or calls extract_info for the next one, and it is only left
\* after the last identifier under the cap; a successful detail or richer
\* detail call is followed by the next step for the same identifier.
C10_ChainIndependence ==
    [][(pc \in ChainPcs) =>
          (/\ \/ /\ pc' \in ChainPcs \ {"chain_extract_info"}
                 /\ pid_idx' = pid_idx
                 /\ provider_calls[Len(provider_calls)].tool # "summarize_paper"
                 /\ provider_calls'[Len(provider_calls)].status = "ok"
                 /\ provider_calls'[Len(provider_calls')].tool
                        = StepAfter(provider_calls[Len(provider_calls)])
                 /\ PidOf(provider_calls'[Len(provider_calls')]) = paper_ids[pid_idx]
              \/ /\ pc' = "chain_extract_info"
                 /\ pid_idx' = pid_idx + 1
                 /\ pid_idx' <= Len(paper_ids)
                 /\ provider_calls'[Len(provider_calls')].tool = "extract_info"
                 /\ PidOf(provider_calls'[Len(provider_calls')]) = paper_ids[pid_idx + 1]
              \/ /\ pc' \notin ChainPcs
                 /\ pid_idx = Min3(Len(paper_ids))
           /\ (paper_ids' = paper_ids \/ pc' \notin ChainPcs))]_vars

\* Of three identifiers the second failed detail
\* retrieval; the first and the third got their condensation call.
C10_Witness ==
    /\ pc = "chain_summarize_paper"
    /\ Len(paper_ids) = 3
    /\ \E i, j, k \in DOMAIN provider_calls :
           /\ i < j /\ j < k
           /\ provider_calls[i].tool = "summarize_paper"
           /\ PidOf(provider_calls[i]) = paper_ids[1]
           /\ provider_calls[j].tool = "extract_info"
           /\ provider_calls[j].status = "failed"
           /\ PidOf(provider_calls[j]) = paper_ids[2]
           /\ provider_calls[k].tool = "summarize_paper"
           /\ PidOf(provider_calls[k]) = paper_ids[3]

\* Every chained call but the last has returned its text.
ChainSucceedsSoFar ==
    \A k \in 1..(Len(provider_calls) - 1) : provider_calls[k].status = "ok"

\* The chained call Scenario A expects at place k of provider_calls (place 1
\* is the discovery call): detail of the identifier, then condensation of
\* its detail text, identifier after identifier.
ScenarioACall(ids, k) ==
    IF k % 2 = 0
    THEN [tool |-> "extract_info", arg |-> TxtOf("paper_id", ids[k \div 2])]
    ELSE [tool |-> "summarize_paper", arg |-> TxtOf("info", ids[(k - 1) \div 2])]

\* C11: with search_papers, extract_info and summarize_paper but no
\* get_full_text in the catalog and every call succeeding, the calls issued
\* after the discovery call are extract_info(x1), summarize_paper(detail text
\* of x1), extract_info(x2), summarize_paper(detail text of x2), ... in that
\* order; the chain is left only after the condensation of the last
\* identifier, and the follow-up request that then goes out carries the
\* history with the user, assistant and discovery tool messages of the turn.
C11_ChainStepOrder ==
    [][/\ (/\ pc' \in ChainPcs
           /\ "get_full_text" \notin available_tools'
           /\ ChainSucceedsSoFar')
          => /\ ~provider_calls'[1].chained
             /\ provider_calls'[1].tool = "search_papers"
             /\ provider_calls'[Len(provider_calls')].status = "pending"
             /\ \A k \in 2..Len(provider_calls') :
                    /\ provider_calls'[k].chained
                    /\ provider_calls'[k].tool = ScenarioACall(paper_ids', k).tool
                    /\ provider_calls'[k].arg = ScenarioACall(paper_ids', k).arg
       /\ (/\ pc \in ChainPcs
           /\ "get_full_text" \notin available_tools
           /\ ChainSucceedsSoFar
           /\ last_result' = "ok"
           /\ pc' \notin ChainPcs)
          => /\ pc = "chain_summarize_paper"
             /\ Len(provider_calls) = 1 + 2 * Min3(Len(paper_ids))
             /\ pc' \in {"call_tool", "followup"}
       /\ (pc \in ChainPcs /\ pc' = "followup")
          => /\ message_history' = message_history
             /\ \E i \in DOMAIN message_history :
                    /\ i + 2 <= Len(message_history)
                    /\ message_history[i] = UserMessage(query)
                    /\ message_history[i + 1].role = "assistant"
                    /\ message_history[i + 1].tool_calls = tool_calls
                    /\ message_history[Len(message_history)].role = "tool"
                    /\ message_history[Len(message_history)].tool_call_id = tool_calls[tc].id
                    /\ message_history[Len(message_history)].content.ids = paper_ids]_vars

\* Scenario A just before its last call returns: two identifiers, no
\* get_full_text, detail and condensation of the first done, detail of the
\* second done, condensation of the second under way.
C11_Witness ==
    /\ pc = "chain_summarize_paper"
    /\ "get_full_text" \notin available_tools
    /\ Len(paper_ids) = 2
    /\ pid_idx = 2
    /\ Len(provider_calls) = 5
    /\ ChainSucceedsSoFar
    /\ Len(tool_calls) = 1

\* C12 (as claimed): every chained call that returns its text appends a
\* message to the history.
C12_ChainedCallsRecorded ==
    [][(pc \in ChainPcs /\ last_result' = "ok")
          => Len(message_history') = Len(message_history) + 1]_vars

\* C13 (as claimed): when the get_full_text call of an identifier fails
\* after its extract_info call returned the detail text, summarize_paper is
\* called next for that identifier, on the detail text.
C13_RicherDetailFallback ==
    [][(pc = "chain_get_full_text" /\ last_result' = "failed")
          => /\ pc' = "chain_summarize_paper"
             /\ pid_idx' = pid_idx
             /\ provider_calls'[Len(provider_calls')].tool = "summarize_paper"
             /\ provider_calls'[Len(provider_calls')].arg = info_text]_vars

\* The tool message that answers the tool call being dispatched.
AnswerOf(call) ==
    CHOOSE i \in ToolMessages(message_history) : message_history[i].tool_call_id = call.id

\* C14 (as claimed): chained calls are only issued when the discovery
\* result text is a JSON array; on any other text, JSON or not, there is
\* none.
C14_ChainOnlyOnArray ==
    pc \in ChainPcs =>
        /\ HasToolMessage(message_history, tool_calls[tc])
        /\ message_history[AnswerOf(tool_calls[tc])].content.kind = "json_array"

\* The step in which the first completion request of a turn returns a
\* message without tool calls.
PlainAnswer ==
    /\ pc = "model"
    /\ message_history' # message_history
    /\ message_history'[Len(message_history')].tool_calls = <<>>

\* C15: a turn whose first model response carries no tool calls appends
\* exactly the user message and then the assistant message, issues no
\* call_tool call and no follow-up request, and is back at the prompt.
C15_PlainAnswerTurn ==
    [][PlainAnswer =>
          /\ Len(message_history') = Len(message_history) + 2
          /\ SubSeq(message_history', 1, Len(message_history)) = message_history
          /\ message_history'[Len(message_history) + 1].role = "user"
          /\ message_history'[Len(message_history) + 1].content = query
          /\ message_history'[Len(message_history) + 2].role = "assistant"
          /\ pc' = "idle"
          /\ provider_calls' = <<>>
          /\ dispatch_log' = <<>>
          /\ tool_calls' = <<>>]_vars

\* A plain answer was given and the program is back at the prompt.
C15_Witness ==
    /\ pc = "idle"
    /\ Len(message_history) = 3
    /\ message_history[2].role = "user"
    /\ message_history[3].role = "assistant"
    /\ message_history[3].tool_calls = <<>>
    /\ ~ \E i \in DOMAIN message_history : message_history[i].role = "tool"

\* The follow-up request of a turn goes out in this step.
FollowupIssued == pc # "followup" /\ pc' = "followup"

\* C16: in a turn with tool calls the follow-up request is issued once:
\* only from the loop over the tool calls, after every tool call has been
\* dispatched and settled and the chain, if any, has passed its last
\* identifier; it carries the history and no tools; its answer is appended
\* as the last message of the turn and the program is back at the prompt
\* (a request that fails appends nothing and its error is reported).
C16_FollowupProtocol ==
    [][/\ FollowupIssued =>
              /\ pc \in {"model"} \cup ToolPhase
              /\ tool_calls' # <<>>
              /\ Len(dispatch_log') = Len(tool_calls')
              /\ \A k \in DOMAIN dispatch_log' : dispatch_log'[k].outcome # "pending"
              /\ provider_calls' = <<>>
              /\ (pc \in ChainPcs => pid_idx = Min3(Len(paper_ids)))
              /\ completion_request'.messages = message_history'
              /\ completion_request'.tools = {}
              /\ completion_request'.tool_choice = "unset"
       /\ pc = "followup" =>
              /\ completion_request' = NoRequest
              /\ tool_calls' = <<>>
              /\ \/ /\ pc' = "report_error"
                    /\ message_history' = message_history
                 \/ /\ pc' = "idle"
                    /\ Len(message_history') = Len(message_history) + 1
                    /\ SubSeq(message_history', 1, Len(message_history)) = message_history
                    /\ message_history'[Len(message_history')].role = "assistant"
                    /\ message_history'[Len(message_history')].tool_calls = <<>>
       /\ (pc \in ToolPhase => pc' \in ToolPhase \cup {"followup"})
       /\ (/\ pc = "model"
           /\ message_history' # message_history
           /\ message_history'[Len(message_history')].tool_calls # <<>>)
          => pc' \in ToolPhase \cup {"followup"}]_vars

\* A turn with two tool calls is over: its follow-up answer is the last
\* message of the history, after the two tool messages.
C16_Witness ==
    /\ pc = "idle"
    /\ Len(message_history) = 6
    /\ Len(message_history[3].tool_calls) = 2
    /\ message_history[4].role = "tool"
    /\ message_history[5].role = "tool"
    /\ message_history[6].role = "assistant"

\* The call_tool calls that have not returned yet.
PendingCalls == {k \in DOMAIN provider_calls : provider_calls[k].status = "pending"}

\* The requests, to the model or to the provider, that are outstanding.
Outstanding ==
    Cardinality(PendingCalls) + (IF completion_request = NoRequest THEN 0 ELSE 1)
        + (IF pc = "get_prompt" THEN 1 ELSE 0)

\* C17: at most one request is outstanding at any time, a model completion
\* or a call_tool call; a call is only issued when the one before it has
\* returned or failed, so only the last recorded call can be pending; and
\* at the prompt, where user input is read, no turn is in progress and
\* nothing is outstanding.
C17_StrictSequentiality ==
    /\ Outstanding <= 1
    /\ PendingCalls \subseteq {Len(provider_calls)}
    /\ (pc \in ToolPhase <=> PendingCalls # {})
    /\ (pc \in {"model", "followup"} <=> completion_request # NoRequest)
    /\ (pc \in {"start", "list_resources", "list_prompts", "chat_loop", "idle", "quit",
                "failed"} =>
            /\ Outstanding = 0
            /\ tool_calls = <<>>
            /\ dispatch_log = <<>>
            /\ query = None)

\* The chain waits for its third call of an identifier while the calls
\* before it have all returned or failed.
C17_Witness ==
    /\ pc = "chain_summarize_paper"
    /\ Len(provider_calls) >= 4
    /\ Outstanding = 1
    /\ \E k \in DOMAIN provider_calls : provider_calls[k].status = "failed"

\* C18 (as claimed): when listing the resources or listing the prompts
\* fails at connection time the connection attempt fails: the program
\* neither goes on to list the prompts nor enters the chat loop.
C18_ListingFailureFatal ==
    pc \in {"list_prompts", "chat_loop"} => last_result # "failed"

\* get_resource has printed its report for a uri that list_resources never
\* returned.
UnlistedReported == pc = "get_resource" /\ query.kind \notin sessions

C20_PromptIsOrdinaryTurn ==
    [][/\ (pc' = "get_prompt" /\ pc # "get_prompt") =>
            /\ pc = "idle"
            /\ \A i \in DOMAIN prompt_arguments' : prompt_arguments'[i].type = "str"
            /\ UNCHANGED <<message_history, available_tools, sessions, available_prompts,
                           query, tool_calls, tc, paper_ids, pid_idx, info_text,
                           provider_calls, completion_request, dispatch_log>>
       /\ (pc = "get_prompt" /\ pc' # "get_prompt") =>
            /\ pc' \in {"model", "idle"}
            /\ prompt_arguments' = <<>>
            /\ UNCHANGED <<message_history, available_tools, sessions, available_prompts,
                           tool_calls, tc, paper_ids, pid_idx, info_text, provider_calls,
                           dispatch_log>>
            /\ pc' = "model" =>
                  /\ query' \in PromptTexts
                  /\ completion_request' = FirstRequest(message_history, query')
            /\ pc' = "idle" => UNCHANGED <<query, completion_request>>
       /\ (pc = "idle" /\ pc' = "model") =>
            /\ query' \in QueryTexts
            /\ completion_request' = FirstRequest(message_history, query')
            /\ UNCHANGED <<message_history, available_tools, sessions, available_prompts,
                           tool_calls, tc, paper_ids, pid_idx, info_text, provider_calls,
                           prompt_arguments, dispatch_log>>
       /\ (pc' # "get_prompt") => prompt_arguments' = <<>>
      ]_vars

\* A turn started by the text of a prompt has run to its follow-up answer
\* (the model asked for a tool, the call failed), and the prompt is being
\* executed again with the argument 007, which is sent as the string "7".
C20_Witness ==
    /\ pc = "get_prompt"
    /\ prompt_arguments = <<StrValue(<<"7">>)>>
    /\ Len(message_history) = 4
    /\ message_history[2].role = "user"
    /\ message_history[2].content \in PromptTexts
    /\ message_history[3].tool_calls # <<>>
    /\ message_history[4].role = "assistant"

\* No name occurs twice in a list.
NoDuplicates(s) == \A i, j \in DOMAIN s : s[i] = s[j] => i = j

\* C21 (as claimed): a command that leaves the program at the prompt without
\* starting a turn (list tools, list resources, list prompts among them)
\* changes neither the tool catalog, nor the resource cache, nor the prompt
\* catalog, nor the message history, and the prompt catalog never holds a
\* name twice.
C21_ListCommandsReadOnly ==
    [][(pc = "idle" /\ pc' = "idle") =>
          /\ UNCHANGED <<available_tools, sessions, available_prompts, message_history>>
          /\ NoDuplicates(available_prompts')
      ]_vars

\* C22: a first completion request that fails leaves no trace. While the
\* request is outstanding the query is in the request only, not in the
\* history, and no provider call has been made; when it fails, the history,
\* the catalogs and the caches are what they were when the turn started, no
\* tool call is taken up, and once the error is reported the program is
\* back at the prompt with the same history.
C22_FailedRequestLeavesNoTrace ==
    [][/\ (pc' = "model" /\ pc # "model") =>
            /\ UNCHANGED message_history
            /\ completion_request'.messages = Append(message_history, UserMessage(query'))
       /\ pc = "model" =>
            /\ provider_calls = <<>>
            /\ tool_calls = <<>>
            /\ completion_request.messages = Append(message_history, UserMessage(query))
       /\ (pc = "model" /\ pc' = "report_error") =>
            /\ UNCHANGED <<message_history, available_tools, sessions, available_prompts>>
            /\ provider_calls' = <<>>
            /\ tool_calls' = <<>>
            /\ dispatch_log' = <<>>
            /\ completion_request' = NoRequest
       /\ pc = "report_error" =>
            /\ pc' \in {"report_error", "idle"}
            /\ UNCHANGED <<message_history, available_tools, sessions, available_prompts>>
            /\ provider_calls' = <<>>
            /\ completion_request' = NoRequest
      ]_vars

\* The first turn was answered; the first request of the second turn has
\* failed and its error is being reported, the history still ending with
\* the answer of the first turn.
C22_Witness ==
    /\ pc = "report_error"
    /\ query \in QueryTexts
    /\ Len(message_history) = 3
    /\ message_history[3].role = "assistant"
    /\ ~ \E i \in DOMAIN message_history :
            message_history[i].role = "user" /\ i > 2

\* Where a turn is under way.
TurnPcs == {"model", "followup", "report_error"} \cup ToolPhase

\* The tool calls of the turn that are search_papers calls the provider has
\* answered so far.
DiscoveriesAnswered ==
    {k \in DOMAIN dispatch_log :
        /\ dispatch_log[k].outcome = "answered"
        /\ tool_calls[dispatch_log[k].index].name = "search_papers"}

\* The provider calls of a turn stay within one per tool request and, for
\* each answered search_papers call, three chain calls for each of three
\* identifiers.
CallBound ==
    /\ calls_made <= Len(tool_calls) + 3 * ChainLimit * Cardinality(DiscoveriesAnswered)
    /\ (pc \notin ToolPhase => calls_made = 0)

\* A completion request is only sent when a turn starts and when its loop
\* over the tool calls is over, and the turn ends with the second one.
TwoModelRequests ==
    [][/\ (completion_request' # NoRequest /\ completion_request' # completion_request) =>
            \/ pc' = "model" /\ pc \in {"idle", "get_prompt"}
            \/ pc' = "followup" /\ pc \in {"model"} \cup ToolPhase
       /\ (pc \in ToolPhase => completion_request = NoRequest)
       /\ (pc = "followup" => pc' \in {"followup", "idle", "report_error"})
       /\ (pc \in {"model"} \cup ToolPhase => pc' # "model")
      ]_vars

\* C23: every turn terminates with bounded work: when every request
\* eventually returns or fails, a turn that is under way gets back to the
\* prompt; it sends at most two completion requests, and at most n + 9 * d
\* call_tool calls, n being the number of tool calls of the assistant
\* message and d the number of its search_papers calls that were answered.
C23_TurnsTerminateBounded ==
    /\ []CallBound
    /\ TwoModelRequests
    /\ (pc \in TurnPcs ~> pc = "idle")

\* One search_papers call was requested and answered with more than three
\* identifiers; the chain has issued all nine of its calls, ten calls in all.
C23_Witness ==
    /\ pc = "chain_summarize_paper"
    /\ Len(tool_calls) = 1
    /\ Len(paper_ids) > ChainLimit
    /\ pid_idx = ChainLimit
    /\ calls_made = 1 + 3 * ChainLimit

\* Where the chat loop is: waiting for a line, or inside a command or a turn.
LoopPcs == {"idle", "get_resource", "get_prompt"} \cup TurnPcs

\* C24: the chat loop has no failure exit. It is left only from the prompt,
\* by the quit command; an error that leaves a turn (a failed completion
\* request, first or follow-up) is reported and the program is back at the
\* prompt, as it is after a resource error and after a prompt error.
C24_NoFailureExit ==
    [][/\ (pc \in LoopPcs /\ pc' \notin LoopPcs) => (pc = "idle" /\ pc' = "quit")
       /\ (pc \in {"model", "followup"} /\ message_history' = message_history)
              => pc' \in {pc, "report_error"}
       /\ (pc \in {"report_error", "get_resource"} /\ pc' # pc) => pc' = "idle"
       /\ (pc = "get_prompt" /\ pc' # pc) => pc' \in {"idle", "model"}
      ]_vars

\* The follow-up request of a turn has failed after a tool message was
\* appended, and the error is being reported.
C24_Witness ==
    /\ pc = "report_error"
    /\ query = None
    /\ Len(message_history) >= 4
    /\ message_history[Len(message_history)].role = "tool"

\* C25 (as claimed): in a turn of the standalone chatbot where the model
\* requests tools, the loop over the tool calls is only left by an error or
\* for the follow-up request, sent once every tool call was executed in the
\* order of the assistant message: no turn ends after a tool call that
\* succeeded without the follow-up request.
C25_StandaloneCompletesToolPhase ==
    [][(pc = "standalone_tool") =>
          /\ dispatch_log' = Append(dispatch_log, Dispatched(tc, dispatch_log'[tc].outcome))
          /\ Len(dispatch_log') = tc
          /\ pc' = "standalone_idle" => last_result' = "failed"
          /\ pc' = "standalone_followup" => Len(dispatch_log') = Len(tool_calls)
          /\ pc' = "standalone_tool" => tc' = tc + 1
      ]_vars

====
